---- MODULE Spec2Model ----
(***************************************************************************)
(* A state-machine model of the DINO training program main_dino.py:        *)
(* train_dino, train_one_epoch and DINOLoss, run by NumWorkers data-        *)
(* parallel worker processes that meet at the collectives of                *)
(* torch.distributed (center all-reduce, DDP gradient all-reduce, metric    *)
(* synchronisation) and share the output directory (checkpoint.pth,         *)
(* log.txt).                                                                *)
(*                                                                          *)
(* Tensors are modelled with out_dim = 1 and one row per view, so a network *)
(* output is a sequence with one number per view.  Numbers are floats in    *)
(* fixed point (One is 1.0) with the three IEEE non-finite values.          *)
(***************************************************************************)
EXTENDS Integers, Sequences, FiniteSets, TLC

(***************************************************************************)
(* Bounds of the model.                                                     *)
(***************************************************************************)
\* world size: number of worker processes (ranks 0 .. NumWorkers-1)
NumWorkers == 2
\* args.epochs
Epochs == 2
\* len(data_loader): batches per epoch and worker
StepsPerEpoch == 2
\* args.local_crops_number ranges over 0 .. MaxLocalCrops
MaxLocalCrops == 1
\* number of parameter tensors of the student (and of the teacher)
NParams == 2
\* finite pixel values of a source image are One, ..., MaxPixel * One
MaxPixel == 2
\* how many times the program is launched on the same output directory
MaxLaunches == 2

Workers == 0 .. (NumWorkers - 1)

(***************************************************************************)
(* Floats.  A finite float is an integer in -FloatMax .. FloatMax, read in  *)
(* units of 1/One; results are rounded to the nearest unit and overflow to  *)
(* the infinities, as IEEE arithmetic does.                                 *)
(***************************************************************************)
One == 100
FloatMax == 2000 * One
Inf == FloatMax + 1
NegInf == 0 - (FloatMax + 1)
NaN == FloatMax + 2

\* math.isfinite
IsFinite(x) == x \notin {Inf, NegInf, NaN}

Abs(x) == IF x < 0 THEN 0 - x ELSE x

Sign(x) == IF x < 0 THEN 0 - 1 ELSE 1

Norm(x) == IF x > FloatMax THEN Inf ELSE IF x < 0 - FloatMax THEN NegInf ELSE x

FNeg(a) ==
    IF a = NaN THEN NaN
    ELSE IF a = Inf THEN NegInf
    ELSE IF a = NegInf THEN Inf
    ELSE 0 - a

FAdd(a, b) ==
    IF a = NaN \/ b = NaN THEN NaN
    ELSE IF a = Inf THEN (IF b = NegInf THEN NaN ELSE Inf)
    ELSE IF a = NegInf THEN (IF b = Inf THEN NaN ELSE NegInf)
    ELSE IF b = Inf \/ b = NegInf THEN b
    ELSE Norm(a + b)

FSub(a, b) == FAdd(a, FNeg(b))

\* sign of a possibly infinite, non-NaN float
FSign(a) == IF a = NegInf THEN 0 - 1 ELSE IF a = Inf THEN 1 ELSE Sign(a)

FMul(a, b) ==
    IF a = NaN \/ b = NaN THEN NaN
    ELSE IF ~IsFinite(a) \/ ~IsFinite(b)
         THEN (IF a = 0 \/ b = 0 THEN NaN
               ELSE IF FSign(a) * FSign(b) > 0 THEN Inf ELSE NegInf)
    ELSE IF (Abs(a) \div One) * (Abs(b) \div One) > FloatMax \div One
         THEN (IF Sign(a) * Sign(b) > 0 THEN Inf ELSE NegInf)
    ELSE Norm(Sign(a) * Sign(b) * ((Abs(a) * Abs(b) + One \div 2) \div One))

FDiv(a, b) ==
    IF a = NaN \/ b = NaN THEN NaN
    ELSE IF ~IsFinite(a)
         THEN (IF ~IsFinite(b) THEN NaN
               ELSE IF FSign(a) * FSign(b) > 0 THEN Inf ELSE NegInf)
    ELSE IF ~IsFinite(b) THEN 0
    ELSE IF b = 0
         THEN (IF a = 0 THEN NaN ELSE IF a > 0 THEN Inf ELSE NegInf)
    ELSE Norm(Sign(a) * Sign(b) * ((Abs(a) * One + Abs(b) \div 2) \div Abs(b)))

RECURSIVE FSumFrom(_, _)
\* torch.sum of the entries i .. Len(s) of a sequence of floats
FSumFrom(s, i) == IF i > Len(s) THEN 0 ELSE FAdd(s[i], FSumFrom(s, i + 1))

FSum(s) == FSumFrom(s, 1)

(***************************************************************************)
(* Command line.  get_args_parser: the flags the training loop reads.  The  *)
(* float flags are fixed; the flags that select a code path are drawn from  *)
(* ArgsSet by Init.                                                         *)
(***************************************************************************)
Profiles ==
    { [use_fp16 |-> FALSE, clip_grad |-> 0, freeze_last_layer |-> 0, saveckp_freq |-> 1,
       warmup_teacher_temp_epochs |-> 1],
      [use_fp16 |-> TRUE, clip_grad |-> (3 * One) \div 2, freeze_last_layer |-> 1, saveckp_freq |-> 2,
       warmup_teacher_temp_epochs |-> Epochs],
      [use_fp16 |-> FALSE, clip_grad |-> (3 * One) \div 2, freeze_last_layer |-> 1, saveckp_freq |-> 0,
       warmup_teacher_temp_epochs |-> 0] }

ArgsSet ==
    { [ local_crops_number |-> k,
        epochs |-> Epochs,
        batch_size_per_gpu |-> 1,
        lr |-> 128 * One,
        min_lr |-> 0,
        warmup_epochs |-> 0,
        weight_decay |-> 0,
        weight_decay_end |-> One \div 10,
        momentum_teacher |-> (9 * One) \div 10,
        warmup_teacher_temp |-> One \div 4,
        teacher_temp |-> One \div 2,
        warmup_teacher_temp_epochs |-> p.warmup_teacher_temp_epochs,
        use_fp16 |-> p.use_fp16,
        clip_grad |-> p.clip_grad,
        freeze_last_layer |-> p.freeze_last_layer,
        saveckp_freq |-> p.saveckp_freq ] : k \in 0 .. MaxLocalCrops, p \in Profiles }

\* DINOLoss(..., center_momentum): 0.9 by default, 1.0 freezes the center
CenterMomenta == { (9 * One) \div 10, One }

(***************************************************************************)
(* Schedules.                                                               *)
(***************************************************************************)
\* np.linspace(a, b, n)
linspace(a, b, n) ==
    [i \in 1 .. n |->
        IF n = 1 THEN a
        ELSE FAdd(a, FDiv(FMul((i - 1) * One, FSub(b, a)), (n - 1) * One))]

\* 0.5 * (1 + cos(pi * i / n)) for 0 <= i < n, on the fixed-point grid: the
\* cosine is replaced by the cubic 1 - 3x^2 + 2x^3, which agrees with it at
\* x = 0, 1/2 and 1 and is within 0.01 of it in between
HalfCosine(i, n) == (One * (n * n * n - 3 * i * i * n + 2 * i * i * i) + (n * n * n) \div 2) \div (n * n * n)

\* utils.cosine_scheduler(base_value, final_value, epochs, niter_per_ep, warmup_epochs):
\* a linear warmup from 0 to base_value, then the cosine decay to final_value;
\* epochs * niter_per_ep entries in all
cosine_scheduler(base_value, final_value, epochs, niter_per_ep, warmup_epochs) ==
    LET warmup_iters == warmup_epochs * niter_per_ep
        n == epochs * niter_per_ep - warmup_iters
    IN  linspace(0, base_value, warmup_iters) \o
        [i \in 1 .. n |->
            FAdd(final_value, FMul(FSub(base_value, final_value), HalfCosine(i - 1, n)))]

\* a table whose constant part forgets to leave room for the warmup entries
teacher_temp_schedule_long(warmup_teacher_temp, teacher_temp, warmup_teacher_temp_epochs, nepochs) ==
    linspace(warmup_teacher_temp, teacher_temp, warmup_teacher_temp_epochs) \o
    [i \in 1 .. nepochs |-> FMul(One, teacher_temp)]

\* DINOLoss.__init__: one teacher temperature per epoch
teacher_temp_schedule(warmup_teacher_temp, teacher_temp, warmup_teacher_temp_epochs, nepochs) ==
    linspace(warmup_teacher_temp, teacher_temp, warmup_teacher_temp_epochs) \o
    [i \in 1 .. (nepochs - warmup_teacher_temp_epochs) |-> FMul(One, teacher_temp)]

\* train_dino: the three per-step tables, each of args.epochs * len(data_loader) entries
lr_schedule(a) ==
    cosine_scheduler(FDiv(FMul(a.lr, a.batch_size_per_gpu * NumWorkers * One), 256 * One),
                     a.min_lr, a.epochs, StepsPerEpoch, a.warmup_epochs)

wd_schedule(a) == cosine_scheduler(a.weight_decay, a.weight_decay_end, a.epochs, StepsPerEpoch, 0)

momentum_schedule(a) == cosine_scheduler(a.momentum_teacher, One, a.epochs, StepsPerEpoch, 0)

(***************************************************************************)
(* The collaborators the loop calls: data, networks, autograd, optimizer.   *)
(* They are opaque to the training loop; each is given the simplest         *)
(* behaviour that keeps what the loop relies on (arity, order, propagation  *)
(* of non-finite values).                                                   *)
(***************************************************************************)
\* a source image is one pixel: a finite intensity, or HotPixel, an input on
\* which the networks overflow
HotPixel == FloatMax

Pixels == { k * One : k \in 1 .. MaxPixel } \cup { HotPixel }

\* the three transforms of DataAugmentationDINO.__init__
global_transfo1(image) == image

global_transfo2(image) == FAdd(image, One \div 10)

local_transfo(image) == FAdd(image, One \div 5)

\* a crop list that starts with the local views
DataAugmentationDINO_locals_first(image, local_crops_number) ==
    [i \in 1 .. local_crops_number |-> local_transfo(image)] \o
    <<global_transfo1(image), global_transfo2(image)>>

\* DataAugmentationDINO.__call__: the two global views, then the local ones
DataAugmentationDINO(image, local_crops_number) ==
    <<global_transfo1(image), global_transfo2(image)>> \o
    [i \in 1 .. local_crops_number |-> local_transfo(image)]

\* a network with parameters p = <<weight, ..., last_layer>> on one view
Net(p, x) == FAdd(FMul(p[1], x), p[Len(p)])

\* utils.MultiCropWrapper: one output row per view, in the order of the views
MultiCropWrapper(p, views) == [v \in 1 .. Len(views) |-> Net(p, views[v])]

\* F.softmax on the one-dimensional row: a probability that grows with the
\* logit (1/16 of it, within [0, 1]), NaN on a non-finite logit
F_softmax(x) ==
    IF ~IsFinite(x) THEN NaN ELSE IF x < 0 THEN 0 ELSE IF x > 16 * One THEN One ELSE x \div 16

\* F.log_softmax: a finite non-positive number, NaN on a non-finite logit
F_log_softmax(x) == IF ~IsFinite(x) THEN NaN ELSE 0 - Abs(x)

\* no gradient: the value None of a parameter's .grad
None == FloatMax + 3

\* loss.backward(): the local gradient of every student parameter
autograd(images) == [i \in 1 .. NParams |-> IF i = 1 THEN FNeg(images[1]) ELSE FNeg(One)]

\* utils.clip_gradients: every gradient is clipped to norm clip
clip_gradients(g, clip) ==
    [i \in 1 .. Len(g) |->
        IF g[i] # None /\ IsFinite(g[i]) /\ Abs(g[i]) > clip THEN Sign(g[i]) * clip ELSE g[i]]

\* utils.cancel_gradients_last_layer: during the first freeze_last_layer epochs
\* the gradient of the last layer is set to None
cancel_gradients_last_layer(ep, g, freeze_last_layer) ==
    IF ep >= freeze_last_layer THEN g
    ELSE [i \in 1 .. Len(g) |-> IF i = Len(g) THEN None ELSE g[i]]

\* utils.get_params_groups: group 1 is regularized (the weight), group 2 is not
GroupOf(i) == IF i = 1 THEN 1 ELSE 2

\* optimizer.step(): gradient descent with weight decay on the parameters that
\* have a gradient
optimizer_step(p, g, groups) ==
    [i \in 1 .. Len(p) |->
        IF g[i] = None THEN p[i]
        ELSE FSub(p[i], FMul(groups[GroupOf(i)].lr,
                             FAdd(g[i], FMul(groups[GroupOf(i)].weight_decay, p[i]))))]

(***************************************************************************)
(* DINOLoss.                                                                *)
(***************************************************************************)
\* DINOLoss.__init__: student_temp = 0.1
student_temp == One \div 10

\* Tensor.chunk(n): n consecutive chunks of ceil(rows / n) rows each
chunk(t, n) ==
    LET size == (Len(t) + n - 1) \div n
    IN  [k \in 1 .. ((Len(t) + size - 1) \div size) |->
            SubSeq(t, (k - 1) * size + 1, IF k * size < Len(t) THEN k * size ELSE Len(t))]

\* tensor.mean() over the rows
mean(rows) == FDiv(FSum(rows), Len(rows) * One)

\* torch.sum(-q * F.log_softmax(student_out[v], dim=-1), dim=-1).mean()
pair_loss(q, sv) == mean([r \in 1 .. Len(q) |-> FMul(FNeg(q[r]), F_log_softmax(sv[r]))])

\* a skip rule that mistakes the 0-based teacher index for a 1-based one
same_view_one_based(iq, v) == v = iq + 1

\* whether the pair (iq, v) is skipped: student and teacher on the same view
same_view(iq, v) == v = iq

RECURSIVE forward_loop(_, _, _, _, _)
\* the two nested loops of DINOLoss.forward, from the pair (iq, v) on; acc is
\* total_loss and n_loss_terms, with the list of the pairs accumulated so far
forward_loop(teacher_out, student_out, iq, v, acc) ==
    IF iq >= Len(teacher_out) THEN acc
    ELSE IF v >= Len(student_out) THEN forward_loop(teacher_out, student_out, iq + 1, 0, acc)
    ELSE IF same_view(iq, v) THEN forward_loop(teacher_out, student_out, iq, v + 1, acc)
    ELSE LET term == pair_loss(teacher_out[iq + 1], student_out[v + 1])
         IN  forward_loop(teacher_out, student_out, iq, v + 1,
                [total_loss |-> FAdd(acc.total_loss, term),
                 n_loss_terms |-> acc.n_loss_terms + 1,
                 pairs |-> Append(acc.pairs, [iq |-> iq, v |-> v, term |-> term])])

\* a forward that blends the batch into the center before it centers the
\* teacher output
forward_center_first(student_output, teacher_output, ep, ncrops, ctr, temps) ==
    LET student_out == chunk([r \in 1 .. Len(student_output) |->
                                  FDiv(student_output[r], student_temp)], ncrops)
        temp == temps[ep + 1]
        moved == FAdd(FMul(ctr, (9 * One) \div 10), FMul(mean(teacher_output), One \div 10))
        teacher_out == chunk([r \in 1 .. Len(teacher_output) |->
                                  F_softmax(FDiv(FSub(teacher_output[r], moved), temp))], 2)
        acc == forward_loop(teacher_out, student_out, 0, 0,
                            [total_loss |-> 0, n_loss_terms |-> 0, pairs |-> <<>>])
    IN  [total_loss |-> FDiv(acc.total_loss, acc.n_loss_terms * One),
         n_loss_terms |-> acc.n_loss_terms,
         pairs |-> acc.pairs]

\* DINOLoss.forward up to the call of update_center
forward(student_output, teacher_output, ep, ncrops, ctr, temps) ==
    LET student_out == chunk([r \in 1 .. Len(student_output) |->
                                  FDiv(student_output[r], student_temp)], ncrops)
        temp == temps[ep + 1]
        teacher_out == chunk([r \in 1 .. Len(teacher_output) |->
                                  F_softmax(FDiv(FSub(teacher_output[r], ctr), temp))], 2)
        acc == forward_loop(teacher_out, student_out, 0, 0,
                            [total_loss |-> 0, n_loss_terms |-> 0, pairs |-> <<>>])
    IN  [total_loss |-> FDiv(acc.total_loss, acc.n_loss_terms * One),
         n_loss_terms |-> acc.n_loss_terms,
         pairs |-> acc.pairs]

\* a mean over the rows of one worker only
batch_mean_local(reduced, rows, world_size) == FDiv(reduced, rows * One)

\* update_center after the all-reduce: the mean over the rows of all workers
batch_mean(reduced, rows, world_size) == FDiv(reduced, rows * world_size * One)

\* an ema update with the two weights exchanged
center_ema_swapped(ctr, batch_center, momentum) ==
    FAdd(FMul(ctr, FSub(One, momentum)), FMul(batch_center, momentum))

\* update_center: the ema update of the center
center_ema(ctr, batch_center, momentum) ==
    FAdd(FMul(ctr, momentum), FMul(batch_center, FSub(One, momentum)))

(***************************************************************************)
(* train_one_epoch helpers.                                                 *)
(***************************************************************************)
\* the batch index taken for the global one
global_it_local(ep, i) == i

\* global training iteration
global_it(ep, i) == StepsPerEpoch * ep + i

\* the EMA with the roles of student and teacher exchanged
ema_param_swapped(m, param_q, param_k) == FAdd(FMul(param_q, m), FMul(FSub(One, m), param_k))

\* param_k.data.mul_(m).add_((1 - m) * param_q.detach().data)
ema_param(m, param_q, param_k) == FAdd(FMul(param_k, m), FMul(FSub(One, m), param_q))

\* the zip over student and teacher parameters
ema_update(m, student_params, teacher_params) ==
    [i \in 1 .. Len(teacher_params) |-> ema_param(m, student_params[i], teacher_params[i])]

\* schedules written into every group, the weight decay included
apply_schedules_all(groups, lr, wd) ==
    [i \in 1 .. Len(groups) |-> [lr |-> lr, weight_decay |-> wd]]

\* the schedules written into optimizer.param_groups at the start of a step
apply_schedules(groups, lr, wd) ==
    [i \in 1 .. Len(groups) |->
        [lr |-> lr, weight_decay |-> IF i = 1 THEN wd ELSE groups[i].weight_decay]]

\* a load that leaves the destination with its own initial weights
load_state_dict_skipped(dst, src) == dst

\* Module.load_state_dict: the destination takes the values of the source
load_state_dict(dst, src) == src

\* a loop that leaves the flags as they are
freeze_skipped(flags) == flags

\* for p in teacher.parameters(): p.requires_grad = False
freeze(flags) == [i \in 1 .. Len(flags) |-> FALSE]

\* utils.is_main_process: rank 0
is_main_process(w) == w = 0

(***************************************************************************)
(* torch.distributed and the mixed-precision scaler.                        *)
(***************************************************************************)
RECURSIVE reduce_from(_, _)
reduce_from(vals, w) == IF w >= NumWorkers THEN 0 ELSE FAdd(vals[w], reduce_from(vals, w + 1))

\* dist.all_reduce: every worker receives the sum of the workers' values
all_reduce(vals) == reduce_from(vals, 0)

\* DistributedDataParallel: every worker receives the mean of the gradients
ddp_average(g, i) == FDiv(all_reduce([w \in Workers |-> g[w][i]]), NumWorkers * One)

\* torch.cuda.amp.GradScaler(): the initial loss scale
init_scale == 4 * One

\* a non-finite gradient, on which GradScaler.step skips optimizer.step
found_inf(g) == \E i \in 1 .. Len(g) : g[i] # None /\ ~IsFinite(g[i])

\* GradScaler.unscale_
unscale(g, scale) == [i \in 1 .. Len(g) |-> IF g[i] = None THEN None ELSE FDiv(g[i], scale)]

(***************************************************************************)
(* State.                                                                   *)
(***************************************************************************)
VARIABLES
    args,            \* the parsed command line
    center_momentum, \* dino_loss.center_momentum
    launches,        \* how many times the program was launched
    pc,              \* pc[w]: where worker w is in train_dino / train_one_epoch
    epoch,           \* epoch[w]: the epoch loop variable
    it,              \* it[w]: the batch index of enumerate(data_loader)
    it_global,       \* it[w] after line 318: the global training iteration
    student,         \* student[w]: parameters of the student replica
    teacher,         \* teacher[w]: parameters of the teacher replica
    requires_grad,   \* requires_grad[w][i]: flag of teacher parameter i
    param_groups,    \* optimizer.param_groups of worker w
    fp16_scaler,     \* loss scale of worker w, None without --use_fp16
    center,          \* dino_loss.center of worker w
    images,          \* the views of the current batch
    teacher_output,  \* teacher(images[:2])
    loss,            \* result of dino_loss(...): total_loss, n_loss_terms, pairs
    batch_center,    \* batch_center of update_center
    grads,           \* .grad of the student parameters
    meters,          \* metric_logger of the current epoch
    train_stats,     \* return value of train_one_epoch
    exit_code,       \* exit status of worker w, None while it runs
    stdout,          \* stdout[w]: the fatal message worker w printed, <<>> if none
    checkpoint,      \* output_dir/checkpoint.pth: <<>> or <<save_dict>>
    numbered,        \* output_dir/checkpointNNNN.pth: the files written
    log              \* output_dir/log.txt: the lines written

vars == <<args, center_momentum, launches, pc, epoch, it, it_global, student, teacher, requires_grad,
          param_groups, fp16_scaler, center, images, teacher_output, loss, batch_center,
          grads, meters, train_stats, exit_code, stdout, checkpoint, numbered, log>>

config == <<args, center_momentum>>

files == <<checkpoint, numbered, log>>

\* state of a freshly started process, before train_dino has built anything
InitStudent == [i \in 1 .. NParams |-> One]

InitTeacher == [i \in 1 .. NParams |-> One \div 2]

NoLoss == [total_loss |-> 0, n_loss_terms |-> 0, pairs |-> <<>>]

NoMeters == [count |-> 0, loss |-> 0, lr |-> 0, wd |-> 0]

NoStats == [loss |-> 0, lr |-> 0, wd |-> 0]

\* torch.optim defaults: two groups, the second with weight_decay 0
InitGroups == <<[lr |-> 0, weight_decay |-> One \div 100], [lr |-> 0, weight_decay |-> 0]>>

Fresh ==
    /\ pc = [w \in Workers |-> "start"]
    /\ epoch = [w \in Workers |-> 0]
    /\ it = [w \in Workers |-> 0]
    /\ it_global = [w \in Workers |-> None]
    /\ student = [w \in Workers |-> InitStudent]
    /\ teacher = [w \in Workers |-> InitTeacher]
    /\ requires_grad = [w \in Workers |-> [i \in 1 .. NParams |-> TRUE]]
    /\ param_groups = [w \in Workers |-> InitGroups]
    /\ fp16_scaler = [w \in Workers |-> None]
    /\ center = [w \in Workers |-> 0]
    /\ images = [w \in Workers |-> <<>>]
    /\ teacher_output = [w \in Workers |-> <<>>]
    /\ loss = [w \in Workers |-> NoLoss]
    /\ batch_center = [w \in Workers |-> 0]
    /\ grads = [w \in Workers |-> [i \in 1 .. NParams |-> None]]
    /\ meters = [w \in Workers |-> NoMeters]
    /\ train_stats = [w \in Workers |-> NoStats]
    /\ exit_code = [w \in Workers |-> None]
    /\ stdout = [w \in Workers |-> <<>>]

Init ==
    /\ args \in ArgsSet
    /\ center_momentum \in CenterMomenta
    /\ launches = 1
    /\ Fresh
    /\ checkpoint = <<>>
    /\ numbered = {}
    /\ log = <<>>

(***************************************************************************)
(* train_dino: from the networks to the start of the epoch loop.            *)
(***************************************************************************)
\* utils.restart_from_checkpoint: the value of key in checkpoint.pth if the
\* file exists, else the value the caller built
restored(key_value, built) == IF Len(checkpoint) > 0 THEN key_value ELSE built

\* train_dino, lines 214-272: the teacher takes the student's weights and is
\* frozen, loss, optimizer and scaler are built, checkpoint.pth is restored
Setup(w) ==
    /\ pc[w] = "start"
    /\ LET copied == load_state_dict(teacher[w], student[w])
           ck == IF Len(checkpoint) > 0 THEN checkpoint[1]
                 ELSE [student |-> student[w], teacher |-> copied, optimizer |-> InitGroups,
                       fp16_scaler |-> init_scale, dino_loss |-> 0, epoch |-> 0]
       IN  /\ teacher' = [teacher EXCEPT ![w] = restored(ck.teacher, copied)]
           /\ student' = [student EXCEPT ![w] = restored(ck.student, student[w])]
           /\ requires_grad' = [requires_grad EXCEPT ![w] = freeze(requires_grad[w])]
           /\ center' = [center EXCEPT ![w] = restored(ck.dino_loss, 0)]
           /\ param_groups' = [param_groups EXCEPT ![w] = restored(ck.optimizer, InitGroups)]
           /\ fp16_scaler' = [fp16_scaler EXCEPT ![w] =
                                IF args.use_fp16 THEN restored(ck.fp16_scaler, init_scale)
                                ELSE None]
           /\ epoch' = [epoch EXCEPT ![w] = restored(ck.epoch, 0)]
    /\ pc' = [pc EXCEPT ![w] = "epoch"]
    /\ UNCHANGED <<config, launches, it, it_global, images, teacher_output, loss, batch_center, grads,
                   meters, train_stats, exit_code, stdout, files>>

\* for epoch in range(start_epoch, args.epochs): enter train_one_epoch with a
\* new MetricLogger, or leave the loop and return
EpochLoop(w) ==
    /\ pc[w] = "epoch"
    /\ IF epoch[w] < args.epochs
       THEN /\ pc' = [pc EXCEPT ![w] = "batch"]
            /\ it' = [it EXCEPT ![w] = 0]
            /\ meters' = [meters EXCEPT ![w] = NoMeters]
            /\ UNCHANGED exit_code
       ELSE /\ pc' = [pc EXCEPT ![w] = "done"]
            /\ exit_code' = [exit_code EXCEPT ![w] = 0]
            /\ UNCHANGED <<it, meters>>
    /\ UNCHANGED stdout
    /\ UNCHANGED <<config, launches, epoch, it_global, student, teacher, requires_grad, param_groups,
                   fp16_scaler, center, images, teacher_output, loss, batch_center, grads,
                   train_stats, files>>

(***************************************************************************)
(* train_one_epoch: one step.                                               *)
(***************************************************************************)
\* lines 316-330 and DINOLoss.forward up to dist.all_reduce(batch_center): the
\* schedules are applied, both networks run, the loss is computed and the
\* worker enters the all-reduce of update_center with its local sum
Forward(w) ==
    /\ pc[w] = "batch"
    /\ it[w] < StepsPerEpoch
    /\ \E image \in Pixels :
         LET g == global_it(epoch[w], it[w])
             views == DataAugmentationDINO(image, args.local_crops_number)
             t_out == MultiCropWrapper(teacher[w], SubSeq(views, 1, 2))
             s_out == MultiCropWrapper(student[w], views)
             temps == teacher_temp_schedule(args.warmup_teacher_temp, args.teacher_temp,
                                            args.warmup_teacher_temp_epochs, args.epochs)
         IN  /\ param_groups' = [param_groups EXCEPT ![w] =
                    apply_schedules(param_groups[w], lr_schedule(args)[g + 1],
                                    wd_schedule(args)[g + 1])]
             /\ it_global' = [it_global EXCEPT ![w] = g]
             /\ images' = [images EXCEPT ![w] = views]
             /\ teacher_output' = [teacher_output EXCEPT ![w] = t_out]
             /\ loss' = [loss EXCEPT ![w] =
                    forward(s_out, t_out, epoch[w], args.local_crops_number + 2,
                            center[w], temps)]
             /\ batch_center' = [batch_center EXCEPT ![w] = FSum(t_out)]
    /\ pc' = [pc EXCEPT ![w] = "wait_center"]
    /\ UNCHANGED <<config, launches, epoch, it, student, teacher, requires_grad, fp16_scaler,
                   center, grads, meters, train_stats, exit_code, stdout, files>>

\* dist.all_reduce(batch_center) returns on every worker once all have entered
AllReduceCenter ==
    /\ \A w \in Workers : pc[w] = "wait_center"
    /\ batch_center' = [w \in Workers |-> all_reduce(batch_center)]
    /\ pc' = [w \in Workers |-> "center"]
    /\ UNCHANGED <<config, launches, epoch, it, it_global, student, teacher, requires_grad, param_groups,
                   fp16_scaler, center, images, teacher_output, loss, grads, meters,
                   train_stats, exit_code, stdout, files>>

\* update_center, lines 423-426, then forward returns total_loss
UpdateCenter(w) ==
    /\ pc[w] = "center"
    /\ LET bc == batch_mean(batch_center[w], Len(teacher_output[w]), NumWorkers)
       IN  /\ batch_center' = [batch_center EXCEPT ![w] = bc]
           /\ center' = [center EXCEPT ![w] = center_ema(center[w], bc, center_momentum)]
    /\ pc' = [pc EXCEPT ![w] = "check"]
    /\ UNCHANGED <<config, launches, epoch, it, it_global, student, teacher, requires_grad, param_groups,
                   fp16_scaler, images, teacher_output, loss, grads, meters, train_stats,
                   exit_code, stdout, files>>

\* a check that reports the non-finite loss and goes on with the step
CheckFinite_continue(w) ==
    /\ pc[w] = "check"
    /\ pc' = [pc EXCEPT ![w] = "backward"]
    /\ UNCHANGED <<config, launches, epoch, it, it_global, student, teacher, requires_grad,
                   param_groups, fp16_scaler, center, images, teacher_output, loss,
                   batch_center, grads, meters, train_stats, exit_code, stdout, files>>

\* line 333: "Loss is {}, stopping training".format(loss.item()): the values
\* the message states, by name
fatal_message(loss_item, step) == [loss |-> loss_item]

\* lines 332-334: a non-finite loss is printed (force=True: on every rank) and
\* ends the process with sys.exit(1)
CheckFinite(w) ==
    /\ pc[w] = "check"
    /\ IF ~IsFinite(loss[w].total_loss)
       THEN /\ pc' = [pc EXCEPT ![w] = "exited"]
            /\ stdout' = [stdout EXCEPT ![w] = fatal_message(loss[w].total_loss, it_global[w])]
            /\ exit_code' = [exit_code EXCEPT ![w] = 1]
       ELSE /\ pc' = [pc EXCEPT ![w] = "backward"]
            /\ UNCHANGED <<exit_code, stdout>>
    /\ UNCHANGED <<config, launches, epoch, it, it_global, student, teacher, requires_grad, param_groups,
                   fp16_scaler, center, images, teacher_output, loss, batch_center, grads,
                   meters, train_stats, files>>

\* lines 337-340 / 347: optimizer.zero_grad(), then backward() of the (scaled)
\* loss; DistributedDataParallel all-reduces the gradients during backward
Backward(w) ==
    /\ pc[w] = "backward"
    /\ grads' = [grads EXCEPT ![w] =
                    IF fp16_scaler[w] = None THEN autograd(images[w])
                    ELSE [i \in 1 .. NParams |-> FMul(autograd(images[w])[i], fp16_scaler[w])]]
    /\ pc' = [pc EXCEPT ![w] = "wait_grad"]
    /\ UNCHANGED <<config, launches, epoch, it, it_global, student, teacher, requires_grad, param_groups,
                   fp16_scaler, center, images, teacher_output, loss, batch_center, meters,
                   train_stats, exit_code, stdout, files>>

\* the gradient all-reduce returns on every worker once all have entered
AllReduceGrad ==
    /\ \A w \in Workers : pc[w] = "wait_grad"
    /\ grads' = [w \in Workers |-> [i \in 1 .. NParams |-> ddp_average(grads, i)]]
    /\ pc' = [w \in Workers |-> "update"]
    /\ UNCHANGED <<config, launches, epoch, it, it_global, student, teacher, requires_grad, param_groups,
                   fp16_scaler, center, images, teacher_output, loss, batch_center, meters,
                   train_stats, exit_code, stdout, files>>

\* an update that cancels the last-layer gradients only after optimizer.step()
update_fp32_cancel_late(p, g, groups, a, ep) ==
    LET clipped == IF a.clip_grad # 0 THEN clip_gradients(g, a.clip_grad) ELSE g
        kept == cancel_gradients_last_layer(ep, clipped, a.freeze_last_layer)
    IN  [student |-> optimizer_step(p, clipped, groups), grads |-> kept, scale |-> None]

\* lines 341-345: clipping, last-layer cancellation, optimizer.step()
update_fp32(p, g, groups, a, ep) ==
    LET clipped == IF a.clip_grad # 0 THEN clip_gradients(g, a.clip_grad) ELSE g
        kept == cancel_gradients_last_layer(ep, clipped, a.freeze_last_layer)
    IN  [student |-> optimizer_step(p, kept, groups), grads |-> kept, scale |-> None]

\* lines 348-354: the same through the scaler, which unscales the gradients
\* once, skips optimizer.step() on a non-finite gradient and updates its scale
update_fp16(p, g, groups, a, ep, scale) ==
    LET clipped == IF a.clip_grad # 0 THEN clip_gradients(unscale(g, scale), a.clip_grad) ELSE g
        kept == cancel_gradients_last_layer(ep, clipped, a.freeze_last_layer)
        unscaled == IF a.clip_grad # 0 THEN kept ELSE unscale(kept, scale)
    IN  [student |-> IF found_inf(unscaled) THEN p ELSE optimizer_step(p, unscaled, groups),
         grads |-> unscaled,
         scale |-> IF found_inf(unscaled) THEN FMul(scale, One \div 2) ELSE scale]

OptimizerUpdate(w) ==
    /\ pc[w] = "update"
    /\ LET r == IF fp16_scaler[w] = None
                THEN update_fp32(student[w], grads[w], param_groups[w], args, epoch[w])
                ELSE update_fp16(student[w], grads[w], param_groups[w], args, epoch[w],
                                 fp16_scaler[w])
       IN  /\ student' = [student EXCEPT ![w] = r.student]
           /\ grads' = [grads EXCEPT ![w] = r.grads]
           /\ fp16_scaler' = [fp16_scaler EXCEPT ![w] = r.scale]
    /\ pc' = [pc EXCEPT ![w] = "ema"]
    /\ UNCHANGED <<config, launches, epoch, it, it_global, teacher, requires_grad, param_groups, center,
                   images, teacher_output, loss, batch_center, meters, train_stats, exit_code, stdout,
                   files>>

\* lines 356-360: EMA update for the teacher
EmaUpdate(w) ==
    /\ pc[w] = "ema"
    /\ LET m == momentum_schedule(args)[it_global[w] + 1]
       IN  teacher' = [teacher EXCEPT ![w] = ema_update(m, student[w], teacher[w])]
    /\ pc' = [pc EXCEPT ![w] = "logging"]
    /\ UNCHANGED <<config, launches, epoch, it, it_global, student, requires_grad, param_groups,
                   fp16_scaler, center, images, teacher_output, loss, batch_center, grads,
                   meters, train_stats, exit_code, stdout, files>>

\* lines 362-366: the meters take the loss, lr and wd of the step; next batch
MetricUpdate(w) ==
    /\ pc[w] = "logging"
    /\ meters' = [meters EXCEPT ![w] =
                    [count |-> meters[w].count + 1,
                     loss |-> FAdd(meters[w].loss, loss[w].total_loss),
                     lr |-> FAdd(meters[w].lr, param_groups[w][1].lr),
                     wd |-> FAdd(meters[w].wd, param_groups[w][1].weight_decay)]]
    /\ it' = [it EXCEPT ![w] = it[w] + 1]
    /\ pc' = [pc EXCEPT ![w] = "batch"]
    /\ UNCHANGED <<config, launches, epoch, it_global, student, teacher, requires_grad, param_groups,
                   fp16_scaler, center, images, teacher_output, loss, batch_center, grads,
                   train_stats, exit_code, stdout, files>>

\* line 368: the data loader is exhausted, the worker enters
\* metric_logger.synchronize_between_processes()
EpochSync(w) ==
    /\ pc[w] = "batch"
    /\ it[w] >= StepsPerEpoch
    /\ pc' = [pc EXCEPT ![w] = "wait_sync"]
    /\ UNCHANGED <<config, launches, epoch, it, it_global, student, teacher, requires_grad, param_groups,
                   fp16_scaler, center, images, teacher_output, loss, batch_center, grads,
                   meters, train_stats, exit_code, stdout, files>>

\* global_avg of a meter
global_avg(total, count) == FDiv(total, count * One)

\* the barrier and all-reduce of the meters return on every worker once all
\* have entered; train_one_epoch returns the global averages
SyncMeters ==
    /\ \A w \in Workers : pc[w] = "wait_sync"
    /\ LET count == all_reduce([w \in Workers |-> meters[w].count])
           synced == [count |-> count,
                      loss |-> all_reduce([w \in Workers |-> meters[w].loss]),
                      lr |-> all_reduce([w \in Workers |-> meters[w].lr]),
                      wd |-> all_reduce([w \in Workers |-> meters[w].wd])]
       IN  /\ meters' = [w \in Workers |-> synced]
           /\ train_stats' = [w \in Workers |->
                                [loss |-> global_avg(synced.loss, count),
                                 lr |-> global_avg(synced.lr, count),
                                 wd |-> global_avg(synced.wd, count)]]
    /\ pc' = [w \in Workers |-> "save"]
    /\ UNCHANGED <<config, launches, epoch, it, it_global, student, teacher, requires_grad, param_groups,
                   fp16_scaler, center, images, teacher_output, loss, batch_center, grads,
                   exit_code, stdout, files>>

(***************************************************************************)
(* train_dino: end of an epoch.                                             *)
(***************************************************************************)
\* a snapshot that records the index of the epoch instead of the count of
\* completed epochs
save_dict_epoch_index(w) ==
    [student |-> student[w], teacher |-> teacher[w], optimizer |-> param_groups[w],
     epoch |-> epoch[w], dino_loss |-> center[w], fp16_scaler |-> fp16_scaler[w],
     writer |-> w, launch |-> launches]

\* lines 288-297
save_dict(w) ==
    [student |-> student[w], teacher |-> teacher[w], optimizer |-> param_groups[w],
     epoch |-> epoch[w] + 1, dino_loss |-> center[w], fp16_scaler |-> fp16_scaler[w],
     writer |-> w, launch |-> launches]

\* utils.save_on_master: only the main process writes the file
save_on_master(w) == is_main_process(w)

\* a test on the count of completed epochs instead of the epoch index
numbered_due_completed(ep, saveckp_freq) == saveckp_freq # 0 /\ (ep + 1) % saveckp_freq = 0

\* line 299: the numbered snapshot is due
numbered_due(ep, saveckp_freq) == saveckp_freq # 0 /\ ep % saveckp_freq = 0

\* lines 298-300: checkpoint.pth, and checkpointNNNN.pth when due
SaveCheckpoint(w) ==
    /\ pc[w] = "save"
    /\ checkpoint' = IF save_on_master(w) THEN <<save_dict(w)>> ELSE checkpoint
    /\ numbered' = IF save_on_master(w) /\ numbered_due(epoch[w], args.saveckp_freq)
                   THEN numbered \cup {[name |-> epoch[w], writer |-> w, launch |-> launches]}
                   ELSE numbered
    /\ pc' = [pc EXCEPT ![w] = "log"]
    /\ UNCHANGED <<config, launches, epoch, it, it_global, student, teacher, requires_grad, param_groups,
                   fp16_scaler, center, images, teacher_output, loss, batch_center, grads,
                   meters, train_stats, exit_code, stdout, log>>

\* a log write without the main-process guard
log_writer_all(w) == TRUE

\* line 303: who appends to log.txt
log_writer(w) == is_main_process(w)

\* lines 301-305: one line of log.txt, then the next epoch
WriteLog(w) ==
    /\ pc[w] = "log"
    /\ log' = IF log_writer(w)
              THEN Append(log, [epoch |-> epoch[w], stats |-> train_stats[w],
                                writer |-> w, launch |-> launches])
              ELSE log
    /\ epoch' = [epoch EXCEPT ![w] = epoch[w] + 1]
    /\ pc' = [pc EXCEPT ![w] = "epoch"]
    /\ UNCHANGED <<config, launches, it, it_global, student, teacher, requires_grad, param_groups,
                   fp16_scaler, center, images, teacher_output, loss, batch_center, grads,
                   meters, train_stats, exit_code, stdout, checkpoint, numbered>>

(***************************************************************************)
(* The program is launched again on the same output directory once every    *)
(* process of the previous launch has ended.                                *)
(***************************************************************************)
\* the process of worker w has ended: returned, exited, or was terminated
Stopped(w) == pc[w] \in {"done", "exited", "killed"}

Relaunch ==
    /\ \A w \in Workers : Stopped(w)
    /\ launches < MaxLaunches
    /\ launches' = launches + 1
    /\ pc' = [w \in Workers |-> "start"]
    /\ epoch' = [w \in Workers |-> 0]
    /\ it' = [w \in Workers |-> 0]
    /\ it_global' = [w \in Workers |-> None]
    /\ student' = [w \in Workers |-> InitStudent]
    /\ teacher' = [w \in Workers |-> InitTeacher]
    /\ requires_grad' = [w \in Workers |-> [i \in 1 .. NParams |-> TRUE]]
    /\ param_groups' = [w \in Workers |-> InitGroups]
    /\ fp16_scaler' = [w \in Workers |-> None]
    /\ center' = [w \in Workers |-> 0]
    /\ images' = [w \in Workers |-> <<>>]
    /\ teacher_output' = [w \in Workers |-> <<>>]
    /\ loss' = [w \in Workers |-> NoLoss]
    /\ batch_center' = [w \in Workers |-> 0]
    /\ grads' = [w \in Workers |-> [i \in 1 .. NParams |-> None]]
    /\ meters' = [w \in Workers |-> NoMeters]
    /\ train_stats' = [w \in Workers |-> NoStats]
    /\ exit_code' = [w \in Workers |-> None]
    /\ stdout' = [w \in Workers |-> <<>>]
    /\ UNCHANGED <<config, files>>

\* the steps of worker w's own process
WorkerStep(w) ==
    \/ Setup(w)
    \/ EpochLoop(w)
    \/ Forward(w)
    \/ UpdateCenter(w)
    \/ CheckFinite(w)
    \/ Backward(w)
    \/ OptimizerUpdate(w)
    \/ EmaUpdate(w)
    \/ MetricUpdate(w)
    \/ EpochSync(w)
    \/ SaveCheckpoint(w)
    \/ WriteLog(w)

\* the collectives
Collective == AllReduceCenter \/ AllReduceGrad \/ SyncMeters

\* the steps of the running program
Program == Collective \/ \E w \in Workers : WorkerStep(w)

Next == Program \/ Relaunch

Spec == Init /\ [][Next]_vars

(***************************************************************************)
(* Process termination, the only cancellation there is: the job is ended     *)
(* from outside at any point of the run.  The processes lose their memory;   *)
(* the output directory stays as it is.                                      *)
(***************************************************************************)
Terminate ==
    /\ \E w \in Workers : ~Stopped(w)
    /\ pc' = [w \in Workers |-> "killed"]
    /\ epoch' = [w \in Workers |-> 0]
    /\ it' = [w \in Workers |-> 0]
    /\ it_global' = [w \in Workers |-> None]
    /\ student' = [w \in Workers |-> InitStudent]
    /\ teacher' = [w \in Workers |-> InitTeacher]
    /\ requires_grad' = [w \in Workers |-> [i \in 1 .. NParams |-> TRUE]]
    /\ param_groups' = [w \in Workers |-> InitGroups]
    /\ fp16_scaler' = [w \in Workers |-> None]
    /\ center' = [w \in Workers |-> 0]
    /\ images' = [w \in Workers |-> <<>>]
    /\ teacher_output' = [w \in Workers |-> <<>>]
    /\ loss' = [w \in Workers |-> NoLoss]
    /\ batch_center' = [w \in Workers |-> 0]
    /\ grads' = [w \in Workers |-> [i \in 1 .. NParams |-> None]]
    /\ meters' = [w \in Workers |-> NoMeters]
    /\ train_stats' = [w \in Workers |-> NoStats]
    /\ exit_code' = [w \in Workers |-> None]
    /\ stdout' = [w \in Workers |-> <<>>]
    /\ UNCHANGED <<config, launches, files>>

\* the program, terminated and launched again at will
NextResume == Next \/ Terminate

SpecResume == Init /\ [][NextResume]_vars

(***************************************************************************)
(* Properties.                                                              *)
(***************************************************************************)
\* total number of crops = 2 global crops + local_crops_number
ncrops == args.local_crops_number + 2

\* the ordered pairs (iq, v) of teacher view iq and student view v, v # iq
CrossViewPairs(n) == { p \in (0 .. 1) \X (0 .. (n - 1)) : p[2] # p[1] }

RECURSIVE SumOfTerms(_, _)
\* the terms 1 .. k of a list of pairs, added up in the order of the list
SumOfTerms(pairs, k) == IF k = 0 THEN 0 ELSE FAdd(SumOfTerms(pairs, k - 1), pairs[k].term)

\* the loss of teacher view iq against student view v, from the state of worker
\* w as it is when forward has computed the loss and not yet updated the center
TermOf(w, iq, v) ==
    LET q == F_softmax(FDiv(FSub(Net(teacher[w], images[w][iq + 1]), center[w]),
                            teacher_temp_schedule(args.warmup_teacher_temp, args.teacher_temp,
                                args.warmup_teacher_temp_epochs, args.epochs)[epoch[w] + 1]))
        s == FDiv(Net(student[w], images[w][v + 1]), student_temp)
    IN  FMul(FNeg(q), F_log_softmax(s))

\* C1: whenever DINOLoss.forward has run on ncrops = N student chunks and 2
\* teacher chunks, it has accumulated one term for each ordered pair (iq, v)
\* with iq in {0,1}, v in 0..N-1, v # iq, and no other: n_loss_terms = 2*(N-1),
\* every term is the loss of its pair, and total_loss is the sum of the terms
\* divided by 2*(N-1); for N = 2 the pairs are (0,1) and (1,0).
C1_PairTerms ==
    \A w \in Workers :
        loss[w] # NoLoss =>
            LET pairs == loss[w].pairs
                n == 2 * (ncrops - 1)
            IN  /\ Len(images[w]) = ncrops
                /\ loss[w].n_loss_terms = n
                /\ Len(pairs) = n
                /\ { <<pairs[k].iq, pairs[k].v>> : k \in 1 .. Len(pairs) } = CrossViewPairs(ncrops)
                /\ loss[w].total_loss = FDiv(SumOfTerms(pairs, Len(pairs)), n * One)
                /\ pc[w] = "wait_center" =>
                       \A k \in 1 .. Len(pairs) : pairs[k].term = TermOf(w, pairs[k].iq, pairs[k].v)
                /\ ncrops = 2 =>
                       <<pairs[1].iq, pairs[1].v, pairs[2].iq, pairs[2].v>> = <<0, 1, 1, 0>>

\* C1 witness: a forward on three crops has produced a finite positive loss
\* from four terms
C1_Witness ==
    \E w \in Workers :
        /\ pc[w] = "wait_center"
        /\ ncrops = 3
        /\ loss[w].n_loss_terms = 4
        /\ IsFinite(loss[w].total_loss)
        /\ loss[w].total_loss > 0

\* what worker w owns: its loop position, networks, optimizer, gradients, meters
WorkerState(w) ==
    <<epoch[w], it[w], it_global[w], student[w], teacher[w], requires_grad[w], param_groups[w],
      fp16_scaler[w], center[w], grads[w], meters[w], train_stats[w], loss[w]>>

\* the files as far as worker w has written them
WrittenBy(w) ==
    << { k \in 1 .. Len(log) : log[k].writer = w /\ log[k].launch = launches },
       { f \in numbered : f.writer = w /\ f.launch = launches },
       IF Len(checkpoint) > 0 /\ checkpoint[1].writer = w /\ checkpoint[1].launch = launches
       THEN checkpoint ELSE <<>> >>

\* worker w has found its loss non-finite, or has exited on it
Detected(w) == (pc[w] = "check" /\ ~IsFinite(loss[w].total_loss)) \/ pc[w] = "exited"

\* C2: once a worker has computed a non-finite loss, its only step is to exit
\* with status 1, in that same step of the loop and without another forward:
\* from the detection on, as long as the process exists, it computes no
\* gradient, takes no optimizer step, makes no EMA update, updates no meter and
\* writes neither a checkpoint nor a log line.
C2_FatalNonFinite ==
    [][\A w \in Workers :
          (Detected(w) /\ launches' = launches) =>
              /\ pc'[w] \in {pc[w], "exited"}
              /\ pc'[w] = "exited" => exit_code'[w] = 1
              /\ WorkerState(w)' = WorkerState(w)
              /\ WrittenBy(w)' = WrittenBy(w)]_vars

\* C2 witness: a worker has exited with status 1 on a non-finite loss while
\* its gradients are still unset and its meters empty
C2_Witness ==
    \E w \in Workers :
        /\ pc[w] = "exited"
        /\ exit_code[w] = 1
        /\ ~IsFinite(loss[w].total_loss)
        /\ meters[w].count = 0
        /\ \A i \in 1 .. NParams : grads[w][i] = None

\* the values of a table
Range(t) == { t[k] : k \in 1 .. Len(t) }

\* the EMA rule with momentum m, written out on the floats
EmaOf(m, student_params, teacher_params) ==
    [i \in 1 .. NParams |-> FAdd(FMul(m, teacher_params[i]), FMul(One - m, student_params[i]))]

\* C3: from the end of the set-up of train_dino on, every teacher parameter has
\* requires_grad = False; and a step changes the teacher parameters of a worker
\* only if it is the set-up (the copy of the student, or the restore of
\* checkpoint.pth), or the EMA update, which sets them by the EMA rule for a
\* momentum of the schedule. The optimizer step never does (a new launch
\* builds new networks).
C3_TeacherOnlyEma ==
    /\ [](\A w \in Workers :
            pc[w] # "start" => \A i \in 1 .. NParams : requires_grad[w][i] = FALSE)
    /\ [][\A w \in Workers :
            teacher'[w] # teacher[w] =>
                \/ /\ pc[w] = "start"
                   /\ \/ teacher'[w] = student[w]
                      \/ Len(checkpoint) > 0 /\ teacher'[w] = checkpoint[1].teacher
                \/ /\ pc[w] = "ema"
                   /\ \E m \in Range(momentum_schedule(args)) :
                          teacher'[w] = EmaOf(m, student[w], teacher[w])
                \/ launches' # launches]_vars

\* C3 witness: the optimizer has moved the student away from the frozen
\* teacher, whose EMA update is still to come
C3_Witness ==
    \E w \in Workers :
        /\ pc[w] = "ema"
        /\ student[w] # teacher[w]
        /\ \A i \in 1 .. NParams : requires_grad[w][i] = FALSE

\* C4: the EMA update of a step sets every teacher parameter to
\* m * teacher + (1 - m) * student for m = momentum_schedule[steps_per_epoch *
\* epoch + it], the entry of the step's global index, and touches neither the
\* student, nor a gradient, nor requires_grad (it runs under no_grad); with
\* m = 0.9, student = 2.0 and teacher = 1.0 every teacher parameter becomes 1.1.
C4_EmaRule ==
    [][\A w \in Workers :
          (pc[w] = "ema" /\ pc'[w] = "logging") =>
              LET m == momentum_schedule(args)[StepsPerEpoch * epoch[w] + it[w] + 1]
              IN  /\ teacher'[w] = EmaOf(m, student[w], teacher[w])
                  /\ student'[w] = student[w]
                  /\ grads'[w] = grads[w]
                  /\ requires_grad'[w] = [i \in 1 .. NParams |-> FALSE]
                  /\ ( /\ m = (9 * One) \div 10
                       /\ student[w] = [i \in 1 .. NParams |-> 2 * One]
                       /\ teacher[w] = [i \in 1 .. NParams |-> One] )
                     => teacher'[w] = [i \in 1 .. NParams |-> (11 * One) \div 10]]_vars

\* C4 witness: the first EMA update of a run, with momentum 0.9, has taken
\* the teacher from 1.0 to 1.1 against a student at 2.0
C4_Witness ==
    \E w \in Workers :
        /\ pc[w] = "logging"
        /\ it_global[w] = 0
        /\ momentum_schedule(args)[1] = (9 * One) \div 10
        /\ student[w] = [i \in 1 .. NParams |-> 2 * One]
        /\ teacher[w] = [i \in 1 .. NParams |-> (11 * One) \div 10]

\* C5: on a fresh run (no checkpoint.pth to restore) the teacher parameters
\* equal the student parameters when the first training step begins.
C5_TeacherStartsAsStudent ==
    \A w \in Workers :
        (Len(checkpoint) = 0 /\ pc[w] = "batch" /\ epoch[w] = 0 /\ it[w] = 0) =>
            teacher[w] = student[w]

\* C5 witness: a worker of a fresh run is about to begin step 0 with the
\* teacher equal to the student's initial weights
C5_Witness ==
    \E w \in Workers :
        /\ Len(checkpoint) = 0
        /\ pc[w] = "batch"
        /\ epoch[w] = 0
        /\ it[w] = 0
        /\ it_global[w] = None
        /\ teacher[w] = InitStudent

\* C6 as claimed: with center_momentum = 1.0 the center is the zero vector in
\* every state, whatever the teacher outputs.
C6_CenterFrozen_Claimed ==
    center_momentum = One => \A w \in Workers : center[w] = 0

\* C6 as amended: with center_momentum = 1.0, update_center leaves the center
\* as it is whenever the all-reduced batch_center is finite, so the center is
\* the zero vector until a non-finite batch_center is fed in, which makes it
\* NaN (inf * 0); it never takes another finite value.
C6_CenterFrozenWhileFinite ==
    /\ [](center_momentum = One =>
            \A w \in Workers : center[w] = 0 \/ ~IsFinite(center[w]))
    /\ [][center_momentum = One =>
            \A w \in Workers :
                (pc[w] = "center" /\ pc'[w] = "check" /\ IsFinite(batch_center'[w])) =>
                    center'[w] = center[w]]_vars

\* C6 witness: with center_momentum = 1.0 a finite non-zero batch_center has
\* been blended in and the center is still zero
C6_Witness ==
    \E w \in Workers :
        /\ center_momentum = One
        /\ pc[w] = "check"
        /\ IsFinite(batch_center[w])
        /\ batch_center[w] # 0
        /\ center[w] = 0

RECURSIVE SumRowsUpTo(_)
\* the teacher output rows of the workers 0 .. k, added up
SumRowsUpTo(k) ==
    IF k < 0 THEN 0
    ELSE FAdd(SumRowsUpTo(k - 1), SumOfTerms([r \in 1 .. Len(teacher_output[k]) |->
                                                 [term |-> teacher_output[k][r]]],
                                             Len(teacher_output[k])))

\* how many center updates worker w has made, counted by global iterations
CenterUpdates(w) ==
    IF it_global[w] = None THEN 0
    ELSE IF pc[w] \in {"wait_center", "center"} THEN it_global[w]
    ELSE it_global[w] + 1

\* C7: after the all-reduce of update_center, batch_center of every worker is
\* the sum of the teacher output rows of all workers divided by (rows per
\* worker * world size); the worker then sets center = center * center_momentum
\* + batch_center * (1 - center_momentum); and any two workers that have made
\* the same number of center updates since the set-up hold the same center.
C7_CenterAllReduce ==
    /\ [](\A w \in Workers :
            pc[w] = "check" =>
                batch_center[w] =
                    FDiv(SumRowsUpTo(NumWorkers - 1), Len(teacher_output[w]) * NumWorkers * One))
    /\ [](\A w, v \in Workers :
            (pc[w] # "start" /\ pc[v] # "start" /\ CenterUpdates(w) = CenterUpdates(v)) =>
                center[w] = center[v])
    /\ [][\A w \in Workers :
            (pc[w] = "center" /\ pc'[w] = "check") =>
                center'[w] = FAdd(FMul(center[w], center_momentum),
                                  FMul(batch_center'[w], One - center_momentum))]_vars

\* C7 witness: two workers with different teacher outputs have both blended
\* the same finite batch mean into their centers, which are equal and non-zero
C7_Witness ==
    \E w, v \in Workers :
        /\ w # v
        /\ pc[w] = "check"
        /\ pc[v] = "check"
        /\ teacher_output[w] # teacher_output[v]
        /\ IsFinite(batch_center[w])
        /\ center[w] # 0
        /\ center[w] = center[v]

\* the fixed length of the three per-step tables
TableLength == args.epochs * StepsPerEpoch

\* C8: the three tables have epochs * steps_per_epoch entries; every step of
\* an epoch in [start_epoch, epochs) with batch index it in [0,
\* steps_per_epoch) reads them at steps_per_epoch * epoch + it, which lies in
\* [0, epochs * steps_per_epoch); and from one step of a process to its next,
\* also across an epoch boundary, that index grows by exactly 1.
C8_ScheduleIndex ==
    /\ [](/\ Len(lr_schedule(args)) = TableLength
          /\ Len(wd_schedule(args)) = TableLength
          /\ Len(momentum_schedule(args)) = TableLength
          /\ \A w \in Workers :
                it_global[w] # None => it_global[w] \in 0 .. (TableLength - 1))
    /\ [][\A w \in Workers :
            (pc[w] = "batch" /\ pc'[w] = "wait_center") =>
                /\ epoch[w] \in 0 .. (args.epochs - 1)
                /\ it[w] \in 0 .. (StepsPerEpoch - 1)
                /\ it_global'[w] = StepsPerEpoch * epoch[w] + it[w]
                /\ it_global'[w] \in 0 .. (TableLength - 1)
                /\ it_global[w] # None => it_global'[w] = it_global[w] + 1
                /\ param_groups'[w][1].lr = lr_schedule(args)[it_global'[w] + 1]
                /\ param_groups'[w][1].weight_decay = wd_schedule(args)[it_global'[w] + 1]]_vars

\* C8 witness: the first step of the second epoch has read the tables at
\* index steps_per_epoch, one more than the last step of the first epoch
C8_Witness ==
    \E w \in Workers :
        /\ pc[w] = "wait_center"
        /\ epoch[w] = 1
        /\ it[w] = 0
        /\ it_global[w] = StepsPerEpoch
        /\ meters[w].count = 0

\* C9 as claimed: once a worker has exited on a non-finite loss, the run
\* terminates: as long as some worker has not stopped, the program can take a
\* step, so that no worker is left waiting for ever at a collective.
C9_GroupAbort_Claimed ==
    (\E w \in Workers : pc[w] = "exited") =>
        ((\A v \in Workers : Stopped(v)) \/ ENABLED Program)

\* C10: every line of log.txt, checkpoint.pth and every checkpointNNNN.pth has
\* been written by the main process (rank 0), no two lines of log.txt are for
\* the same epoch, and the end of an epoch adds at most one line.
C10_OnlyMainWrites ==
    /\ [](/\ \A k \in 1 .. Len(log) : log[k].writer = 0
          /\ Len(checkpoint) > 0 => checkpoint[1].writer = 0
          /\ \A f \in numbered : f.writer = 0
          /\ \A j, k \in 1 .. Len(log) : log[j].epoch = log[k].epoch => j = k)
    /\ [][/\ Len(log') <= Len(log) + 1
          /\ \A w \in Workers : (w # 0 /\ launches' = launches) => WrittenBy(w)' = WrittenBy(w)]_vars

\* C10 witness: a worker other than the main process has passed the end of
\* an epoch, whose single log line and checkpoint the main process wrote
C10_Witness ==
    \E w \in Workers :
        /\ w # 0
        /\ pc[w] = "epoch"
        /\ epoch[w] = 1
        /\ Len(log) = 1
        /\ log[1].epoch = 0
        /\ Len(checkpoint) = 1

\* the completed-epoch count recorded in checkpoint.pth, 0 without the file
CompletedEpochs == IF Len(checkpoint) > 0 THEN checkpoint[1].epoch ELSE 0

\* worker w is inside train_one_epoch
Training(w) ==
    pc[w] \in {"batch", "wait_center", "center", "check", "backward", "wait_grad", "update",
               "ema", "logging", "wait_sync"}

\* C11: at the end of epoch e the main process writes into checkpoint.pth the
\* completed-epoch count e + 1 with its student, teacher, optimizer and center
\* state; a process that finds checkpoint.pth takes all of these from it and
\* starts its epoch loop at the recorded count; the loop variable only moves
\* by one at the end of an epoch. So, across terminations and new launches,
\* the main process only ever trains the epoch whose number is the recorded
\* count (no epoch with a snapshot is executed again, none is skipped), it
\* stays below args.epochs, and another worker is at most one epoch ahead.
C11_ResumeFromSnapshot ==
    /\ [][(pc[0] = "save" /\ pc'[0] = "log") =>
            /\ Len(checkpoint') = 1
            /\ checkpoint'[1].epoch = epoch[0] + 1
            /\ checkpoint'[1].student = student[0]
            /\ checkpoint'[1].teacher = teacher[0]
            /\ checkpoint'[1].optimizer = param_groups[0]
            /\ checkpoint'[1].dino_loss = center[0]]_vars
    /\ [][\A w \in Workers :
            (pc[w] = "start" /\ pc'[w] = "epoch" /\ Len(checkpoint) > 0) =>
                /\ epoch'[w] = checkpoint[1].epoch
                /\ student'[w] = checkpoint[1].student
                /\ teacher'[w] = checkpoint[1].teacher
                /\ param_groups'[w] = checkpoint[1].optimizer
                /\ center'[w] = checkpoint[1].dino_loss]_vars
    /\ [][\A w \in Workers :
            (epoch'[w] # epoch[w] /\ pc'[w] \notin {"start", "killed"}) =>
                \/ pc[w] = "start" /\ epoch'[w] = CompletedEpochs
                \/ pc[w] = "log" /\ epoch'[w] = epoch[w] + 1]_vars
    /\ [](\A w \in Workers :
            Training(w) =>
                /\ epoch[w] < args.epochs
                /\ epoch[w] \in {CompletedEpochs, CompletedEpochs + 1}
                /\ w = 0 => epoch[w] = CompletedEpochs)

\* C11 witness: a second launch has finished the run that the first launch
\* left after epoch 0: the log line of epoch 0 is the first launch's, the
\* final snapshot with count args.epochs is the second launch's
C11_Witness ==
    /\ launches = 2
    /\ \A w \in Workers : pc[w] = "done"
    /\ CompletedEpochs = args.epochs
    /\ checkpoint[1].launch = 2
    /\ Len(log) = args.epochs
    /\ log[1].launch = 1
    /\ log[2].launch = 2

\* the epochs NNNN for which a checkpointNNNN.pth exists
NumberedNames == { f.name : f \in numbered }

\* C12: the end of every epoch e rewrites checkpoint.pth (with the count
\* e + 1), and writes checkpointNNNN.pth for NNNN = e exactly when
\* saveckp_freq = f > 0 and e is a multiple of f. So after k completed epochs
\* of a run from epoch 0 the numbered snapshots are those of the epochs 0, f,
\* 2f, ... below k, each written once: one in every f consecutive completed
\* epochs; and with f = 0 there is none.
C12_NumberedSnapshots ==
    /\ [][(pc[0] = "save" /\ pc'[0] = "log") =>
            /\ checkpoint' = <<save_dict(0)>>
            /\ CompletedEpochs' = epoch[0] + 1
            /\ numbered' \ numbered =
                 IF args.saveckp_freq > 0 /\ epoch[0] % args.saveckp_freq = 0
                 THEN {[name |-> epoch[0], writer |-> 0, launch |-> launches]}
                 ELSE {}]_vars
    /\ [](LET f == args.saveckp_freq
          IN  /\ f = 0 => numbered = {}
              /\ f > 0 =>
                    /\ NumberedNames = { e \in 0 .. (CompletedEpochs - 1) : e % f = 0 }
                    /\ Cardinality(numbered) = (CompletedEpochs + f - 1) \div f
                    /\ \A a \in 0 .. (CompletedEpochs - f) :
                          Cardinality(NumberedNames \cap (a .. (a + f - 1))) = 1)

\* C12 witness: a run of args.epochs epochs with saveckp_freq = 2 has ended
\* with the one numbered snapshot of epoch 0
C12_Witness ==
    /\ args.saveckp_freq = 2
    /\ \A w \in Workers : pc[w] = "done"
    /\ CompletedEpochs = args.epochs
    /\ NumberedNames = {0}

\* C12 witness of the other case: with saveckp_freq = 0 a whole run has
\* left checkpoint.pth and no numbered snapshot
C12_WitnessNone ==
    /\ args.saveckp_freq = 0
    /\ \A w \in Workers : pc[w] = "done"
    /\ CompletedEpochs = args.epochs
    /\ numbered = {}

\* a table T of n entries that ramps linearly (to the rounding of the grid)
\* from a at epoch 0 to b over its first wep entries and is b from then on
RampThenConstant(T, a, b, wep, n) ==
    /\ Len(T) = n
    /\ wep >= 1 => T[1] = a
    /\ wep >= 2 => T[wep] = b
    /\ \A e \in 0 .. (wep - 1) :
          wep >= 2 => Abs((wep - 1) * (T[e + 1] - a) - e * (b - a)) <= wep - 1
    /\ \A e \in wep .. (n - 1) : T[e + 1] = b

\* the teacher temperature table of the run
TempTable ==
    teacher_temp_schedule(args.warmup_teacher_temp, args.teacher_temp,
                          args.warmup_teacher_temp_epochs, args.epochs)

\* C13: the teacher temperature table has nepochs entries, ramps linearly from
\* warmup_teacher_temp at epoch 0 to teacher_temp over the first
\* warmup_teacher_temp_epochs entries and equals teacher_temp from then on
\* (the runs take warmup_teacher_temp_epochs = 0, 1 and nepochs); a forward
\* reads it at its epoch, which lies in [0, nepochs), and has sharpened the
\* teacher output with that entry.
C13_TeacherTempTable ==
    /\ args.warmup_teacher_temp_epochs \in 0 .. args.epochs
    /\ RampThenConstant(TempTable, args.warmup_teacher_temp, args.teacher_temp,
                        args.warmup_teacher_temp_epochs, args.epochs)
    /\ \A w \in Workers :
          pc[w] = "wait_center" =>
              /\ epoch[w] \in 0 .. (args.epochs - 1)
              /\ epoch[w] + 1 \in DOMAIN TempTable
              /\ LET temp == IF epoch[w] >= args.warmup_teacher_temp_epochs
                             THEN args.teacher_temp
                             ELSE IF epoch[w] = 0 THEN args.warmup_teacher_temp
                             ELSE TempTable[epoch[w] + 1]
                 IN  \A k \in 1 .. Len(loss[w].pairs) :
                        loss[w].pairs[k].term =
                            FMul(FNeg(F_softmax(FDiv(FSub(teacher_output[w][loss[w].pairs[k].iq + 1],
                                                          center[w]), temp))),
                                 F_log_softmax(FDiv(Net(student[w],
                                                        images[w][loss[w].pairs[k].v + 1]),
                                                    student_temp)))

\* C13 witness: with the warmup over all args.epochs epochs, a forward of the
\* last epoch has read the last entry, teacher_temp, and of the first epoch
\* the first, warmup_teacher_temp, which differ
C13_Witness ==
    \E w \in Workers :
        /\ pc[w] = "wait_center"
        /\ args.warmup_teacher_temp_epochs = args.epochs
        /\ epoch[w] = args.epochs - 1
        /\ TempTable[epoch[w] + 1] = args.teacher_temp
        /\ TempTable[1] = args.warmup_teacher_temp
        /\ TempTable[1] # TempTable[epoch[w] + 1]
        /\ IsFinite(loss[w].total_loss)

\* C14: the start of a step (global step g = steps_per_epoch * epoch + it)
\* sets lr = lr_schedule[g] in every optimizer parameter group and
\* weight_decay = wd_schedule[g] in group 0 only; the weight_decay of every
\* other group keeps, through the whole run, the value the optimizer was
\* built with; and nothing else in the training loop writes the groups.
C14_WeightDecayGroupZero ==
    /\ [](\A w \in Workers : \A i \in 2 .. Len(param_groups[w]) :
            param_groups[w][i].weight_decay = InitGroups[i].weight_decay)
    /\ [][\A w \in Workers :
            /\ (pc[w] = "batch" /\ pc'[w] = "wait_center") =>
                  LET g == StepsPerEpoch * epoch[w] + it[w]
                  IN  /\ Len(param_groups'[w]) = Len(param_groups[w])
                      /\ \A i \in 1 .. Len(param_groups[w]) :
                            param_groups'[w][i].lr = lr_schedule(args)[g + 1]
                      /\ param_groups'[w][1].weight_decay = wd_schedule(args)[g + 1]
                      /\ \A i \in 2 .. Len(param_groups[w]) :
                            param_groups'[w][i].weight_decay = param_groups[w][i].weight_decay
            /\ (param_groups'[w] # param_groups[w] /\ launches' = launches) =>
                  pc[w] \in {"batch", "start"}]_vars

\* C14 witness: the second step of a run has given both groups the same
\* non-zero learning rate and group 0 a weight decay that the other group,
\* still at its own, does not have
C14_Witness ==
    \E w \in Workers :
        /\ pc[w] = "wait_center"
        /\ it_global[w] = 1
        /\ param_groups[w][1].lr = param_groups[w][2].lr
        /\ param_groups[w][1].lr > 0
        /\ param_groups[w][1].weight_decay = wd_schedule(args)[2]
        /\ param_groups[w][1].weight_decay > 0
        /\ param_groups[w][2].weight_decay = 0

\* C15: the views of a batch are a list of exactly 2 + local_crops_number
\* entries of one source image: global_transfo1 of it, global_transfo2 of it,
\* then local_crops_number times local_transfo of it, in this order; with
\* local_crops_number = 0 the list is the two global views.
C15_ViewsInOrder ==
    \A w \in Workers :
        images[w] # <<>> =>
            \E image \in Pixels :
                /\ Len(images[w]) = 2 + args.local_crops_number
                /\ images[w][1] = global_transfo1(image)
                /\ images[w][2] = global_transfo2(image)
                /\ \A i \in 3 .. Len(images[w]) : images[w][i] = local_transfo(image)
                /\ args.local_crops_number = 0 =>
                       images[w] = <<global_transfo1(image), global_transfo2(image)>>

\* C15 witness: a batch of three pairwise different views, the local one last
C15_Witness ==
    \E w \in Workers :
        /\ args.local_crops_number = 1
        /\ Len(images[w]) = 3
        /\ IsFinite(images[w][1])
        /\ images[w][1] # images[w][2]
        /\ images[w][3] # images[w][1]
        /\ images[w][3] # images[w][2]
        /\ images[w][3] = local_transfo(images[w][1])

\* C15 witness of the other case: without local crops the batch is the two
\* global views
C15_WitnessGlobalOnly ==
    \E w \in Workers :
        /\ args.local_crops_number = 0
        /\ Len(images[w]) = 2
        /\ images[w][1] # images[w][2]

\* C16 as claimed: a worker that has halted on a non-finite loss has printed a
\* message that states the non-finite loss value and the step (the global
\* training iteration) at which it occurred.
C16_MessageStatesStep_Claimed ==
    \A w \in Workers :
        pc[w] = "exited" =>
            /\ "loss" \in DOMAIN stdout[w]
            /\ stdout[w].loss = loss[w].total_loss
            /\ "step" \in DOMAIN stdout[w]
            /\ stdout[w].step = it_global[w]

\* what the fatal message does state: the loss value, and nothing else
C16_MessageStatesLossOnly ==
    \A w \in Workers :
        pc[w] = "exited" =>
            /\ DOMAIN stdout[w] = {"loss"}
            /\ stdout[w].loss = loss[w].total_loss
            /\ ~IsFinite(stdout[w].loss)

\* the order of the events of a step, as moves of the program position
StepOrder ==
    { <<"batch", "wait_center">>, <<"wait_center", "center">>, <<"center", "check">>,
      <<"check", "backward">>, <<"check", "exited">>, <<"backward", "wait_grad">>,
      <<"wait_grad", "update">>, <<"update", "ema">>, <<"ema", "logging">>,
      <<"logging", "batch">>, <<"batch", "wait_sync">>, <<"wait_sync", "save">> }

\* the gradients optimizer.step() has to see: unscaled (fp16), then clipped
\* (if clip_grad), then with the last layer cancelled
StepGrads(w) ==
    LET g == IF fp16_scaler[w] = None THEN grads[w] ELSE unscale(grads[w], fp16_scaler[w])
        clipped == IF args.clip_grad # 0 THEN clip_gradients(g, args.clip_grad) ELSE g
    IN  cancel_gradients_last_layer(epoch[w], clipped, args.freeze_last_layer)

\* C17: in both branches a step goes through its events in this order:
\* schedules into the optimizer with the forward passes and the loss, the
\* finiteness check, zero_grad and backward, then clipping (if any),
\* last-layer cancellation and optimizer step, then the teacher EMA. The
\* forward and the check leave student, teacher and gradients alone; the
\* optimizer steps on the clipped gradients with the last layer cancelled, so
\* the last layer stays as it is during the first freeze_last_layer epochs;
\* and the EMA blends the student as the optimizer step of the same step has
\* left it.
C17_StepOrder ==
    [][\A w \in Workers :
          /\ (Training(w) /\ pc'[w] # pc[w] /\ pc'[w] \notin {"killed", "start"}) =>
                <<pc[w], pc'[w]>> \in StepOrder
          /\ (pc[w] = "batch" /\ pc'[w] = "wait_center") =>
                /\ param_groups'[w][1].lr = lr_schedule(args)[StepsPerEpoch * epoch[w] + it[w] + 1]
                /\ loss'[w] # NoLoss
                /\ <<student'[w], teacher'[w], grads'[w]>> = <<student[w], teacher[w], grads[w]>>
          /\ (pc[w] = "check" /\ pc'[w] = "backward") =>
                /\ IsFinite(loss[w].total_loss)
                /\ <<student'[w], teacher'[w], grads'[w]>> = <<student[w], teacher[w], grads[w]>>
          /\ (pc[w] = "backward" /\ pc'[w] = "wait_grad") =>
                /\ \A i \in 1 .. NParams : grads'[w][i] # None
                /\ <<student'[w], teacher'[w]>> = <<student[w], teacher[w]>>
          /\ (pc[w] = "update" /\ pc'[w] = "ema") =>
                /\ student'[w] =
                      IF fp16_scaler[w] # None /\ found_inf(StepGrads(w)) THEN student[w]
                      ELSE optimizer_step(student[w], StepGrads(w), param_groups[w])
                /\ grads'[w] = StepGrads(w)
                /\ epoch[w] < args.freeze_last_layer =>
                      /\ grads'[w][NParams] = None
                      /\ student'[w][NParams] = student[w][NParams]
                /\ args.clip_grad # 0 =>
                      \A i \in 1 .. NParams :
                          (grads'[w][i] # None /\ IsFinite(grads'[w][i])) =>
                              Abs(grads'[w][i]) <= args.clip_grad
                /\ teacher'[w] = teacher[w]
          /\ (pc[w] = "ema" /\ pc'[w] = "logging") =>
                /\ teacher'[w] = EmaOf(momentum_schedule(args)[it_global[w] + 1],
                                       student[w], teacher[w])
                /\ student'[w] = student[w]]_vars

\* C17 witness: in an epoch with the last layer frozen the optimizer has
\* stepped on a clipped gradient: the last layer is where it started, its
\* gradient is cancelled, the other gradient sits at the clipping bound, and
\* the EMA, still to come, will read the stepped student
C17_Witness ==
    \E w \in Workers :
        /\ pc[w] = "ema"
        /\ args.use_fp16
        /\ it_global[w] = 0
        /\ epoch[w] < args.freeze_last_layer
        /\ grads[w][NParams] = None
        /\ Abs(grads[w][1]) = args.clip_grad
        /\ student[w][NParams] = InitStudent[NParams]
        /\ student[w][1] # InitStudent[1]
        /\ teacher[w] = InitStudent

\* C17 witness of the full-precision branch
C17_WitnessFp32 ==
    \E w \in Workers :
        /\ pc[w] = "ema"
        /\ ~args.use_fp16
        /\ it_global[w] = 0
        /\ epoch[w] < args.freeze_last_layer
        /\ grads[w][NParams] = None
        /\ Abs(grads[w][1]) = args.clip_grad
        /\ student[w][NParams] = InitStudent[NParams]
        /\ student[w][1] # InitStudent[1]

\* C18: the center of a worker changes only in update_center (or when the
\* set-up restores it from checkpoint.pth), once for every forward, after the
\* loss of that forward has been computed: the loss of step t is computed
\* from teacher probabilities centered with the center as step t-1 left it,
\* which is zero at step 0 of a fresh run, and the forward itself leaves the
\* center as it is until its update_center blends the batch center in.
C18_CenterAfterLoss ==
    /\ [](\A w \in Workers :
            /\ pc[w] \in {"wait_center", "center"} =>
                  \A k \in 1 .. Len(loss[w].pairs) :
                      loss[w].pairs[k].term = TermOf(w, loss[w].pairs[k].iq, loss[w].pairs[k].v)
            /\ (Len(checkpoint) = 0 /\ pc[w] \in {"wait_center", "center"} /\ it_global[w] = 0) =>
                  center[w] = 0)
    /\ [][\A w \in Workers :
            /\ (center'[w] # center[w] /\ launches' = launches) => pc[w] \in {"center", "start"}
            /\ (pc[w] = "batch" /\ pc'[w] = "wait_center") => center'[w] = center[w]
            /\ (pc[w] = "center" /\ pc'[w] \notin {"center", "killed"}) =>
                  /\ pc'[w] = "check"
                  /\ loss'[w] = loss[w]
                  /\ center'[w] = FAdd(FMul(center[w], center_momentum),
                                       FMul(batch_center'[w], One - center_momentum))
                  /\ CenterUpdates(w)' = CenterUpdates(w) + 1]_vars

\* C18 witness: the second forward of a run has computed a finite loss with
\* the non-zero center that the first step left, and has not yet moved it
C18_Witness ==
    \E w \in Workers :
        /\ pc[w] = "wait_center"
        /\ it_global[w] = 1
        /\ center[w] # 0
        /\ IsFinite(center[w])
        /\ IsFinite(loss[w].total_loss)
        /\ loss[w].pairs[1].term = TermOf(w, 0, 1)

\* the lines of log.txt for epoch e
LinesOf(e) == { k \in 1 .. Len(log) : log[k].epoch = e }

\* C19 as claimed: across epochs, terminations and resumes, whenever
\* checkpoint.pth records the completed-epoch count k (and the main process
\* is not in the middle of the writes of an epoch end), log.txt has exactly
\* one line for every epoch e < k, and never two lines for the same epoch.
C19_CheckpointLogConsistent_Claimed ==
    pc[0] # "log" =>
        /\ \A e \in 0 .. (CompletedEpochs - 1) : Cardinality(LinesOf(e)) = 1
        /\ \A e \in 0 .. (Epochs - 1) : Cardinality(LinesOf(e)) <= 1

\* what does hold: no epoch has two lines, a line is only ever for an epoch
\* below the recorded count, and at most the lines of epochs whose end was
\* cut off between the two writes are missing
C19_NoDuplicateLines ==
    /\ \A e \in 0 .. (Epochs - 1) : Cardinality(LinesOf(e)) <= 1
    /\ \A k \in 1 .. Len(log) : log[k].epoch < CompletedEpochs
    /\ \A j, k \in 1 .. Len(log) : j < k => log[j].epoch < log[k].epoch

====
